---- MODULE Spec2Model ----
(***************************************************************************)
(* Model of app/lib/hashtag-autocomplete.js: the debounced, cached,        *)
(* single-flight hashtag search (_searchGeneric / _searchRequest), the     *)
(* seen-hashtag registry with its placeholder rewriter                     *)
(* (fetchUnseenHashtagsInContext / linkSeenHashtagsInContext), and the     *)
(* rule that decides whether "#" opens the autocomplete                    *)
(* (hashtagTriggerRule).                                                   *)
(*                                                                         *)
(* JavaScript runs one task at a time: a task (a call of the data source,  *)
(* a timer firing, a response arriving) runs to its end, and the promise   *)
(* callbacks it made ready (the "jobs") run before the next task starts.   *)
(* Strings that the code only stores and compares are TLA+ strings; the    *)
(* strings it takes apart (hashtag slugs) are sequences of tokens.         *)
(***************************************************************************)
EXTENDS Integers, Sequences, FiniteSets, TLC

VARIABLES
  testing,          \* isTesting(): fixed for a run
  now,              \* new Date(), in milliseconds
  searchCache,      \* term -> cached result, UNDEFINED when absent
  searchCacheTime,  \* time of the last cache write, NOTIME until the first
  currentSearch,    \* index in requests of the request held, 0 for null
  requests,         \* every ajax("/hashtags/search.json") issued, in order
  debounced,        \* the pending discourseDebounce(_searchRequest, ...) call
  calls,            \* every call of the data source and what it returned
  jobs,             \* promise callbacks ready to run (then / finally)
  advances,         \* how many times the model let time pass
  seenHashtags,     \* type -> ref -> resolved entity, NoItem when absent
  checkedHashtags,  \* the already-checked references
  content,          \* the nodes of the content region, in document order
  fetches,          \* every fetchUnseenHashtagsInContext call and its state
  batchRequests,    \* the data of every ajax("/hashtags") request, in order
  lastPass,         \* the last rewrite pass: its number, type order, returned list,
                    \* and whether it repeats the pass of the step before
  lastOp,           \* the kind of the step taken last
  textarea,         \* the textarea of the composer: its value and selectionStart
  typed,            \* how many characters the model typed into the textarea
  lastEval          \* the last evaluation of the trigger rule on the textarea

searchVars == <<testing, now, searchCache, searchCacheTime, currentSearch,
                requests, debounced, calls, jobs, advances>>

linkVars == <<seenHashtags, checkedHashtags, content, fetches, batchRequests,
              lastPass, lastOp>>

triggerVars == <<textarea, typed, lastEval>>

vars == <<searchVars, linkVars, triggerVars>>

----------------------------------------------------------------------------
(* Bounds of the model *)

MaxCalls == 2
MaxAdvances == 2
MaxSpans == 2
MaxFetches == 2
MaxPasses == 3
MaxTyped == 1

(* Program constants *)

CACHE_TTL == 30000
SEARCH_TIMEOUT == 5000
INPUT_DELAY == 250

CANCELLED_STATUS == "__CANCELLED"
UNDEFINED == "undefined"
PENDING == "pending"
NOTIME == -1
NOTIMER == -1

\* terms the autocomplete widget may hand to the data source
Terms == {"", "a", "b", "a b"}
SearchOrders == {<<"category", "tag">>, <<"tag", "category">>}
\* the results field of a search response: absent, an empty list, a list
ResultFields == {UNDEFINED, "[]", "[x]"}

NoDebounce == [pending |-> FALSE, q |-> "", ctx |-> <<>>, resultFunc |-> 0, due |-> NOTIMER]

----------------------------------------------------------------------------
(* Pure helpers of the search orchestrator *)

\* a data source that lets every term through to _searchGeneric
hasWhitespace_never(term) == FALSE

\* a _searchGeneric that treats no term as the empty one
isEmptyTerm_never(term) == FALSE

\* term === ""
isEmptyTerm(term) == term = ""

\* a search that arms no timeout timer
timeoutPromiseOf_none(isTesting, t) == NOTIMER

\* isTesting() ? null : discourseLater(() => resolve(CANCELLED_STATUS), 5000):
\* the time the timer is due at, NOTIMER for null
timeoutPromiseOf(isTesting, t) == IF isTesting THEN NOTIMER ELSE t + SEARCH_TIMEOUT

\* term.match(/\s/)
hasWhitespace(term) == term \in {"a b"}

\* JavaScript truthiness of a results field / cache slot
truthy(v) == v # UNDEFINED

\* r.results || CANCELLED_STATUS
resultsOrCancelled(results) == IF truthy(results) THEN results ELSE CANCELLED_STATUS

\* faulty variant: the cache expires at 30 s sharp
cacheExpired_atTtl(t, cacheTime) == cacheTime # NOTIME /\ t - cacheTime >= CACHE_TTL

\* new Date() - searchCacheTime > 30000 (NaN > 30000 is false before the first write)
cacheExpired(t, cacheTime) == cacheTime # NOTIME /\ t - cacheTime > CACHE_TTL

EmptyCache == [t \in Terms |-> UNDEFINED]

\* faulty variant: the expired cache is not cleared
cacheAfterExpiry_kept(cache, t, cacheTime) == cache

\* searchCache = {} when expired
cacheAfterExpiry(cache, t, cacheTime) ==
  IF cacheExpired(t, cacheTime) THEN EmptyCache ELSE cache

\* faulty variant: a later settlement replaces the first
resolve_override(cur, v) == v

\* resolve(v) of a promise whose state is cur: only the first settlement counts
resolve(cur, v) == IF cur = PENDING THEN v ELSE cur

\* faulty variant: the request held is not aborted
abortCurrent_skipped(reqs, cur) == reqs

\* currentSearch.abort(): the request is cancelled and its promise rejects
abortCurrent(reqs, cur) ==
  IF cur # 0 /\ reqs[cur].status = "outstanding"
  THEN [reqs EXCEPT ![cur].status = "aborted"]
  ELSE reqs

\* the rejection of an aborted request skips .then and readies .finally
abortJobs(reqs, cur) ==
  IF cur # 0 /\ reqs[cur].status = "outstanding"
  THEN <<[kind |-> "finally", req |-> cur, results |-> UNDEFINED]>>
  ELSE <<>>

\* discourseDebounce(target, method, ...args, delay): one pending call per
\* (target, method); a call made while one is pending replaces its
\* arguments and restarts the delay
discourseDebounce(old, args, t, delay) ==
  [pending |-> TRUE, q |-> args[1], ctx |-> args[2], resultFunc |-> args[3], due |-> t + delay]

\* faulty variant: the arguments of the first call of a burst are kept
debouncedSearch_firstWins(old, q, ctx, resultFunc, t) ==
  IF old.pending
  THEN discourseDebounce(old, <<old.q, old.ctx, old.resultFunc>>, t, INPUT_DELAY)
  ELSE discourseDebounce(old, <<q, ctx, resultFunc>>, t, INPUT_DELAY)

\* debouncedSearch = (q, ctx, resultFunc) =>
\*   discourseDebounce(this, _searchRequest, q, ctx, resultFunc, INPUT_DELAY)
debouncedSearch(old, q, ctx, resultFunc, t) ==
  discourseDebounce(old, <<q, ctx, resultFunc>>, t, INPUT_DELAY)

----------------------------------------------------------------------------
(* The seen-hashtag registry and the placeholder rewriter.  A slug is a    *)
(* sequence of tokens, so that the suffix test, the slice, the lowercasing *)
(* and the removal of "#" are computed as the code computes them.          *)

Types == {"category", "tag"}
LinkOrders == {<<"category", "tag">>, <<"tag", "category">>}
\* span.innerText of the placeholders: #a, #A, #a::tag
RawTexts == {<<"#", "a">>, <<"#", "A">>, <<"#", "a", "::", "tag">>}
\* the refs of the entities the server knows
ServerRefs == {<<"a">>}
EntityIds == {"e1", "e2"}
\* an entity of a response: its ref and (by id) its relative_url, slug, icon, text
Items == [ref : ServerRefs, id : EntityIds]
NoItem == [ref |-> <<>>, id |-> "none"]

SeqsUpTo(S, n) == UNION {[1..k -> S] : k \in 0..n}
\* the lists of entities a response may hold for a type: none, one entity,
\* or two entities that share a ref
ItemLists ==
  {<<>>,
   <<[ref |-> <<"a">>, id |-> "e1"]>>,
   <<[ref |-> <<"a">>, id |-> "e2"]>>,
   <<[ref |-> <<"a">>, id |-> "e1"], [ref |-> <<"a">>, id |-> "e2"]>>}
\* a response of /hashtags: type -> list of entities (an absent type as <<>>)
Responses == [Types -> ItemLists]

Span(text) == [kind |-> "span", text |-> text, type |-> "", item |-> NoItem]
\* the <a class="hashtag-cooked"> built from the matching entity
Link(type, item) == [kind |-> "a", text |-> <<>>, type |-> type, item |-> item]

EmptyRegistry == [t \in Types |-> [r \in ServerRefs |-> NoItem]]

\* String.prototype.toLowerCase
lowerToken(tok) == IF tok = "A" THEN "a" ELSE tok
toLowerCase(slug) == [i \in DOMAIN slug |-> lowerToken(slug[i])]

\* span.innerText.replace("#", ""): the first "#" is removed
replaceHash(text) ==
  IF \E i \in DOMAIN text : text[i] = "#"
  THEN LET i == CHOOSE j \in DOMAIN text :
                  text[j] = "#" /\ \A k \in DOMAIN text : text[k] = "#" => j <= k
       IN  SubSeq(text, 1, i - 1) \o SubSeq(text, i + 1, Len(text))
  ELSE text

typePostfix(type) == <<"::", type>>

\* slug.endsWith(typePostfix)
endsWith(slug, postfix) ==
  /\ Len(slug) >= Len(postfix)
  /\ SubSeq(slug, Len(slug) - Len(postfix) + 1, Len(slug)) = postfix

\* if (slug.endsWith(typePostfix)) slug = slug.slice(0, slug.length - typePostfix.length)
stripPostfix(slug, type) ==
  IF endsWith(slug, typePostfix(type))
  THEN SubSeq(slug, 1, Len(slug) - Len(typePostfix(type)))
  ELSE slug

\* seenHashtags[type]?.[slug]
lookup(seen, type, slug) ==
  IF type \in DOMAIN seen /\ slug \in DOMAIN seen[type] THEN seen[type][slug] ELSE NoItem

\* faulty variant: every match replaces what stands in the span's place
replaceWith_detached(node, attached, link) == link

\* hashtagSpan.replaceWith(link): a node that has no parent is left alone
replaceWith(node, attached, link) == IF attached THEN link ELSE node

\* _findAndReplaceSeenHashtagPlaceholder from the k-th type on: slug keeps
\* the suffixes stripped so far, node is what stands in the span's place,
\* attached tells whether the span is still in the document
RECURSIVE findAndReplace(_, _, _, _, _, _)
findAndReplace(seen, slug, order, k, node, attached) ==
  IF k > Len(order) THEN node
  ELSE LET type == order[k]
           stripped == stripPostfix(slug, type)
           matchingSeenHashtag == lookup(seen, type, stripped)
       IN  IF matchingSeenHashtag # NoItem
           THEN findAndReplace(seen, stripped, order, k + 1,
                               replaceWith(node, attached, Link(type, matchingSeenHashtag)),
                               FALSE)
           ELSE findAndReplace(seen, stripped, order, k + 1, node, attached)

\* faulty variant: duplicates are kept
uniq_kept(seq) == seq

\* Array.prototype.uniq: the first occurrence of each element, in order
RECURSIVE uniq(_)
uniq(seq) ==
  IF seq = <<>> THEN <<>>
  ELSE LET front == uniq(SubSeq(seq, 1, Len(seq) - 1))
           last == seq[Len(seq)]
       IN  IF \E i \in DOMAIN front : front[i] = last THEN front ELSE Append(front, last)

\* faulty variant: checked references are not filtered out
unchecked_all(seq, checked) == seq

\* .filter((slug) => !checkedHashtags.has(slug))
RECURSIVE unchecked(_, _)
unchecked(seq, checked) ==
  IF seq = <<>> THEN <<>>
  ELSE LET rest == unchecked(Tail(seq), checked)
       IN  IF Head(seq) \in checked THEN rest ELSE <<Head(seq)>> \o rest

\* the positions of elem.querySelectorAll("span.hashtag-raw")
hashtagSpans(elem) == {i \in DOMAIN elem : elem[i].kind = "span"}

RECURSIVE spanSlugs(_, _)
\* hashtagSpans.map((span) => span.innerText.replace("#", "")), from node i on
spanSlugs(elem, i) ==
  IF i > Len(elem) THEN <<>>
  ELSE IF elem[i].kind = "span"
       THEN <<replaceHash(elem[i].text)>> \o spanSlugs(elem, i + 1)
       ELSE spanSlugs(elem, i + 1)

\* linkSeenHashtagsInContext: the content region after the pass
linkSeenContent(seen, order, elem) ==
  [i \in DOMAIN elem |->
     IF i \in hashtagSpans(elem)
     THEN findAndReplace(seen, replaceHash(elem[i].text), order, 1, elem[i], TRUE)
     ELSE elem[i]]

\* linkSeenHashtagsInContext: the list it returns
linkSeenReturn(checked, elem) ==
  IF hashtagSpans(elem) = {} THEN <<>>
  ELSE unchecked(uniq([i \in DOMAIN spanSlugs(elem, 1) |-> toLowerCase(spanSlugs(elem, 1)[i])]),
                 checked)

\* faulty variant: the last entity of a response for a ref overwrites
mergeItems_overwrite(byRef, items) ==
  IF items = <<>> THEN byRef
  ELSE [r \in DOMAIN byRef |->
          IF \E i \in DOMAIN items : items[i].ref = r
          THEN items[CHOOSE i \in DOMAIN items :
                       items[i].ref = r /\ \A j \in DOMAIN items : items[j].ref = r => j <= i]
          ELSE byRef[r]]

\* response[type].forEach((item) =>
\*   seenHashtags[type][item.ref] = seenHashtags[type][item.ref] || item)
RECURSIVE mergeItems(_, _)
mergeItems(byRef, items) ==
  IF items = <<>> THEN byRef
  ELSE LET item == Head(items)
           merged == IF byRef[item.ref] # NoItem THEN byRef
                     ELSE [byRef EXCEPT ![item.ref] = item]
       IN  mergeItems(merged, Tail(items))

\* Object.keys(response).forEach((type) => ...)
mergeResponse(seen, response) ==
  [t \in DOMAIN seen |-> mergeItems(seen[t], response[t])]

Range(seq) == {seq[i] : i \in DOMAIN seq}

\* faulty variant: only the references the response resolved are marked
markChecked_resolvedOnly(checked, slugs, response) ==
  checked \cup {s \in Range(slugs) :
                  \E t \in DOMAIN response : \E i \in DOMAIN response[t] : response[t][i].ref = s}

\* slugs.forEach(checkedHashtags.add, checkedHashtags)
markChecked(checked, slugs, response) == checked \cup Range(slugs)

NoPass == [n |-> 0, order |-> <<>>, unseen |-> <<>>, repeat |-> FALSE]

\* the response carries an entity for a (type, ref) the registry already
\* holds with another entity
conflicts(seen, response) ==
  \E t \in DOMAIN response : \E i \in DOMAIN response[t] :
    /\ lookup(seen, t, response[t][i].ref) # NoItem
    /\ lookup(seen, t, response[t][i].ref) # response[t][i]

\* ajax("/hashtags", {data: {slugs, order: contextualHashtagConfiguration}})
ajaxHashtags(order, slugs) == [slugs |-> slugs, order |-> order]

InitialContents == {[i \in DOMAIN texts |-> Span(texts[i])] : texts \in SeqsUpTo(RawTexts, MaxSpans)}

LinkInit ==
  /\ seenHashtags = EmptyRegistry
  /\ checkedHashtags = {}
  /\ content \in InitialContents
  /\ fetches = <<>>
  /\ batchRequests = <<>>
  /\ lastPass = NoPass
  /\ lastOp = "none"

\* a caller renders the region: it runs linkSeenHashtagsInContext and, when
\* the list returned is not empty, fetchUnseenHashtagsInContext with that
\* list, which sends ajax("/hashtags", {data: {slugs, order}}); the type
\* order is the one configured for the region's context, the same at every pass
RewritePass(order) ==
  LET unseen == linkSeenReturn(checkedHashtags, content)
  IN  /\ lastPass.n < MaxPasses
      /\ lastPass.n > 0 => order = lastPass.order
      /\ unseen # <<>> => Len(fetches) < MaxFetches
      /\ content' = linkSeenContent(seenHashtags, order, content)
      /\ lastPass' = [n |-> lastPass.n + 1, order |-> order, unseen |-> unseen,
                       repeat |-> lastOp = "pass" /\ lastPass.order = order]
      /\ IF unseen # <<>>
         THEN /\ fetches' = Append(fetches, [order |-> order, slugs |-> unseen,
                                             status |-> "inflight", conflict |-> FALSE])
              /\ batchRequests' = Append(batchRequests, ajaxHashtags(order, unseen))
         ELSE UNCHANGED <<fetches, batchRequests>>
      /\ lastOp' = "pass"
      /\ UNCHANGED <<seenHashtags, checkedHashtags>>
      /\ UNCHANGED <<searchVars, triggerVars>>

\* the response of fetch f arrives: the .then callback of fetchUnseenHashtagsInContext
FetchResponse(f, response) ==
  /\ fetches[f].status = "inflight"
  /\ seenHashtags' = mergeResponse(seenHashtags, response)
  /\ checkedHashtags' = markChecked(checkedHashtags, fetches[f].slugs, response)
  /\ fetches' = [fetches EXCEPT ![f].status = "done",
                                 ![f].conflict = conflicts(seenHashtags, response)]
  /\ lastOp' = "response"
  /\ UNCHANGED <<content, batchRequests, lastPass>>
  /\ UNCHANGED <<searchVars, triggerVars>>

\* the request of fetch f fails: the promise rejects and .then does not run
FetchFailure(f) ==
  /\ fetches[f].status = "inflight"
  /\ fetches' = [fetches EXCEPT ![f].status = "failed"]
  /\ lastOp' = "failure"
  /\ UNCHANGED <<seenHashtags, checkedHashtags, content, batchRequests, lastPass>>
  /\ UNCHANGED <<searchVars, triggerVars>>

----------------------------------------------------------------------------
(* The trigger rule: texts are sequences of characters *)

\* the backtick character (a string cannot hold one)
BACKTICK == "BACKTICK"

\* the texts the textarea holds at the start
InitialTexts ==
  { <<>>,
    <<"#", "#">>,
    <<"#", "#", "#", "#", "#">>,
    <<"h", "e", "l", "l", "o", " ">>,
    <<"#", "c", "a", "t", "e", "g", "o", "r", "y", " ">>,
    <<BACKTICK, BACKTICK, BACKTICK, "\n">>,
    <<BACKTICK, BACKTICK, BACKTICK, "\n", BACKTICK, BACKTICK, BACKTICK, "\n">> }

\* the characters typed into the textarea
Keys == {"#", "a", "\n"}

NoEval == [backSpace |-> FALSE, ret |-> "none"]

Min(a, b) == IF a <= b THEN a ELSE b
Max(a, b) == IF a >= b THEN a ELSE b

\* \w of a regular expression, over the characters of the model
isWordChar(c) == c \notin {"#", " ", "\n", BACKTICK}

\* s.slice(0, end): a negative end counts from the end of s
slice(s, end) ==
  SubSeq(s, 1, IF end < 0 THEN Max(Len(s) + end, 0) ELSE Min(end, Len(s)))

\* c.repeat(n): throws a RangeError for a negative count
repeat(c, n) ==
  IF n < 0 THEN [threw |-> TRUE, val |-> <<>>]
  ELSE IF n = 0 THEN [threw |-> FALSE, val |-> <<>>]
  ELSE [threw |-> FALSE, val |-> [i \in 1..n |-> c]]

\* a regular expression that asks for "#" and word characters up to the end of the line
matchesHashWord_whole(line) ==
  /\ Len(line) >= 2
  /\ line[1] = "#"
  /\ \A i \in 2..Len(line) : isWordChar(line[i])

\* /^#{1}\w+/.test(line): the line begins with "#" and a word character
matchesHashWord(line) ==
  /\ Len(line) >= 2
  /\ line[1] = "#"
  /\ isWordChar(line[2])

\* caretPosition(el)
caretPosition(el) == el.selectionStart

\* the positions of the line breaks among the first n characters of text
lineBreaks(text, n) == {i \in 1..n : text[i] = "\n"}

\* caretRowCol(el): the 1-based row of the caret and its 0-based column
caretRowCol(el) ==
  LET cp == caretPosition(el)
      nl == lineBreaks(el.value, cp)
      lastBreak == IF nl = {} THEN 0 ELSE CHOOSE i \in nl : \A j \in nl : j <= i
  IN  [rowNum |-> Cardinality(nl) + 1, colNum |-> cp - lastBreak]

\* text.split("\n")[row - 1]
splitLine(text, row) ==
  LET nl == lineBreaks(text, Len(text))
      nth(k) == CHOOSE i \in nl : Cardinality({j \in nl : j <= i}) = k
      from == IF row = 1 THEN 1 ELSE nth(row - 1) + 1
      to == IF row > Cardinality(nl) THEN Len(text) ELSE nth(row) - 1
  IN  SubSeq(text, from, to)

\* a run of three backticks at the start of a line opens or closes a fence
isFence(text, i) ==
  /\ i + 2 <= Len(text)
  /\ text[i] = BACKTICK /\ text[i + 1] = BACKTICK /\ text[i + 2] = BACKTICK
  /\ (i = 1 \/ text[i - 1] = "\n")

\* inCodeBlock(text, pos): pos lies after an odd number of fences
inCodeBlock(text, pos) ==
  Cardinality({i \in 1..pos : isFence(text, i) /\ i + 2 <= pos}) % 2 = 1

\* hashtagTriggerRule(textarea, opts): "true", "false", or the error thrown
hashtagTriggerRule(el, backSpace) ==
  LET result == caretRowCol(el)
      row == result.rowNum
      wholeLine == splitLine(el.value, row)
      col == IF backSpace THEN result.colNum - 1 ELSE result.colNum
      line == IF backSpace THEN slice(wholeLine, Len(wholeLine) - 1) ELSE wholeLine
  IN  IF backSpace /\ matchesHashWord(line) THEN "false"
      ELSE IF col < 6 /\ repeat("#", col).threw THEN "RangeError"
      ELSE IF col < 6 /\ slice(line, col) = repeat("#", col).val THEN "false"
      ELSE IF inCodeBlock(el.value, caretPosition(el)) THEN "false"
      ELSE "true"

\* the trigger rule while the search orchestrator or the registry runs
TriggerIdle ==
  /\ textarea = [value |-> <<>>, selectionStart |-> 0]
  /\ typed = 0
  /\ lastEval = NoEval

\* the registry and the rewriter while only the search orchestrator runs
LinkIdle ==
  /\ seenHashtags = EmptyRegistry
  /\ checkedHashtags = {}
  /\ content = <<>>
  /\ fetches = <<>>
  /\ batchRequests = <<>>
  /\ lastPass = NoPass
  /\ lastOp = "none"

\* the search orchestrator while only the registry and the rewriter run
SearchIdle ==
  /\ testing = FALSE
  /\ now = 0
  /\ searchCache = EmptyCache
  /\ searchCacheTime = NOTIME
  /\ currentSearch = 0
  /\ requests = <<>>
  /\ debounced = NoDebounce
  /\ calls = <<>>
  /\ jobs = <<>>
  /\ advances = 0

LinkNext ==
  \/ \E order \in LinkOrders : RewritePass(order)
  \/ \E f \in DOMAIN fetches, response \in Responses : FetchResponse(f, response)
  \/ \E f \in DOMAIN fetches : FetchFailure(f)

\* the registry and the rewriter share no state with the search
\* orchestrator: they are checked as a specification of their own
LinkStart == LinkInit /\ SearchIdle /\ TriggerIdle

LinkSpec == LinkStart /\ [][LinkNext]_vars

----------------------------------------------------------------------------
(* The search orchestrator *)

TimerDues ==
  {calls[n].timeoutPromise : n \in {m \in DOMAIN calls : calls[m].timeoutPromise # NOTIMER}}
    \cup (IF debounced.pending THEN {debounced.due} ELSE {})

SearchInit ==
  /\ testing \in BOOLEAN
  /\ now = 0
  /\ searchCache = EmptyCache
  /\ searchCacheTime = NOTIME
  /\ currentSearch = 0
  /\ requests = <<>>
  /\ debounced = NoDebounce
  /\ calls = <<>>
  /\ jobs = <<>>
  /\ advances = 0

\* dataSource(term) of _setupExperimental, with _searchGeneric inlined
Search(term, order) ==
  /\ jobs = <<>>
  /\ Len(calls) < MaxCalls
  /\ IF hasWhitespace(term)
     THEN /\ calls' = Append(calls, [term |-> term, order |-> order, ret |-> "null",
                                     value |-> "null", timeoutPromise |-> NOTIMER,
                                     window |-> debounced.pending])
          /\ UNCHANGED <<searchCache, currentSearch, requests, debounced, jobs>>
     ELSE LET n == Len(calls) + 1
              cache == cacheAfterExpiry(searchCache, now, searchCacheTime)
              cached == cache[term]
          IN  /\ requests' = abortCurrent(requests, currentSearch)
              /\ jobs' = abortJobs(requests, currentSearch)
              /\ currentSearch' = 0
              /\ searchCache' = cache
              /\ IF truthy(cached)
                 THEN /\ calls' = Append(calls, [term |-> term, order |-> order, ret |-> "value",
                                                 value |-> cached, timeoutPromise |-> NOTIMER,
                                                 window |-> debounced.pending])
                      /\ UNCHANGED debounced
                 ELSE /\ calls' = Append(calls,
                           [term |-> term, order |-> order, ret |-> "promise",
                            value |-> IF isEmptyTerm(term) THEN CANCELLED_STATUS ELSE PENDING,
                            timeoutPromise |-> timeoutPromiseOf(testing, now),
                            window |-> debounced.pending])
                      /\ debounced' = IF isEmptyTerm(term) THEN debounced
                                      ELSE debouncedSearch(debounced, term, order, n, now)
  /\ UNCHANGED <<advances, testing, now, searchCacheTime>>
  /\ UNCHANGED <<linkVars, triggerVars>>

\* the debounce delay ends: _searchRequest(q, ctx, resultFunc)
SearchRequest ==
  /\ jobs = <<>>
  /\ debounced.pending
  /\ debounced.due <= now
  /\ requests' = Append(requests, [term |-> debounced.q, order |-> debounced.ctx,
                                   resultFunc |-> debounced.resultFunc,
                                   status |-> "outstanding"])
  /\ currentSearch' = Len(requests) + 1
  /\ debounced' = NoDebounce
  /\ UNCHANGED <<advances, testing, now, searchCache, searchCacheTime, calls, jobs>>
  /\ UNCHANGED <<linkVars, triggerVars>>

\* the response of request r arrives: its promise fulfils and .then is ready
Response(r, results) ==
  /\ jobs = <<>>
  /\ requests[r].status = "outstanding"
  /\ requests' = [requests EXCEPT ![r].status = "done"]
  /\ jobs' = <<[kind |-> "then", req |-> r, results |-> results]>>
  /\ UNCHANGED <<advances, testing, now, searchCache, searchCacheTime, currentSearch, debounced, calls>>
  /\ UNCHANGED <<linkVars, triggerVars>>

\* request r fails (not by abort): its promise rejects, .then is skipped
Failure(r) ==
  /\ jobs = <<>>
  /\ requests[r].status = "outstanding"
  /\ requests' = [requests EXCEPT ![r].status = "failed"]
  /\ jobs' = <<[kind |-> "finally", req |-> r, results |-> UNDEFINED]>>
  /\ UNCHANGED <<advances, testing, now, searchCache, searchCacheTime, currentSearch, debounced, calls>>
  /\ UNCHANGED <<linkVars, triggerVars>>

\* .then((r) => resultFunc(r.results || CANCELLED_STATUS)), resultFunc being
\* (result) => { cancel(timeoutPromise); resolve(_updateSearchCache(term, result)) }
ThenCallback ==
  /\ jobs # <<>>
  /\ Head(jobs).kind = "then"
  /\ LET j == Head(jobs)
         n == requests[j.req].resultFunc
         result == resultsOrCancelled(j.results)
     IN  /\ searchCache' = [searchCache EXCEPT ![calls[n].term] = result]
         /\ searchCacheTime' = now
         /\ calls' = [calls EXCEPT ![n].timeoutPromise = NOTIMER,
                                   ![n].value = resolve(calls[n].value, result)]
         /\ jobs' = Append(Tail(jobs), [kind |-> "finally", req |-> j.req, results |-> UNDEFINED])
  /\ UNCHANGED <<advances, testing, now, currentSearch, requests, debounced>>
  /\ UNCHANGED <<linkVars, triggerVars>>

\* .finally(() => { currentSearch = null })
FinallyCallback ==
  /\ jobs # <<>>
  /\ Head(jobs).kind = "finally"
  /\ currentSearch' = 0
  /\ jobs' = Tail(jobs)
  /\ UNCHANGED <<advances, testing, now, searchCache, searchCacheTime, requests, debounced, calls>>
  /\ UNCHANGED <<linkVars, triggerVars>>

\* discourseLater(() => resolve(CANCELLED_STATUS), 5000) of call n fires
Timeout(n) ==
  /\ jobs = <<>>
  /\ calls[n].timeoutPromise # NOTIMER
  /\ calls[n].timeoutPromise <= now
  /\ calls' = [calls EXCEPT ![n].timeoutPromise = NOTIMER,
                            ![n].value = resolve(calls[n].value, CANCELLED_STATUS)]
  /\ UNCHANGED <<advances, testing, now, searchCache, searchCacheTime, currentSearch, requests,
                 debounced, jobs>>
  /\ UNCHANGED <<linkVars, triggerVars>>

\* time passes; a timer fires when it is due, so time does not pass a due timer
Advance(d) ==
  /\ jobs = <<>>
  /\ advances < MaxAdvances
  /\ advances' = advances + 1
  /\ \A due \in TimerDues : now + d <= due
  /\ now' = now + d
  /\ UNCHANGED <<testing, searchCache, searchCacheTime, currentSearch, requests,
                 debounced, calls, jobs>>
  /\ UNCHANGED <<linkVars, triggerVars>>

Init == SearchInit /\ LinkIdle /\ TriggerIdle

Next ==
  \/ \E term \in Terms, order \in SearchOrders : Search(term, order)
  \/ SearchRequest
  \/ \E r \in DOMAIN requests, results \in ResultFields : Response(r, results)
  \/ \E r \in DOMAIN requests : Failure(r)
  \/ ThenCallback
  \/ FinallyCallback
  \/ \E n \in DOMAIN calls : Timeout(n)
  \/ \E d \in {INPUT_DELAY, SEARCH_TIMEOUT - INPUT_DELAY, CACHE_TTL, CACHE_TTL + 1} : Advance(d)

Spec == Init /\ [][Next]_vars

\* time passes up to the next timer that is pending
AdvanceToTimer ==
  /\ jobs = <<>>
  /\ TimerDues # {}
  /\ \A due \in TimerDues : due > now
  /\ now' = CHOOSE due \in TimerDues : \A other \in TimerDues : due <= other
  /\ UNCHANGED <<advances, testing, searchCache, searchCacheTime, currentSearch, requests,
                 debounced, calls, jobs>>
  /\ UNCHANGED <<linkVars, triggerVars>>

TimeoutAny == \E n \in DOMAIN calls : Timeout(n)

FairNext == Next \/ AdvanceToTimer

\* the event loop runs the callbacks that are ready and fires the timers
\* that are due, and time does not stop short of a pending timer; a
\* response or a failure of a request may never come
Fairness ==
  /\ WF_vars(SearchRequest)
  /\ WF_vars(ThenCallback)
  /\ WF_vars(FinallyCallback)
  /\ WF_vars(TimeoutAny)
  /\ WF_vars(AdvanceToTimer)

FairSpec == Init /\ [][FairNext]_vars /\ Fairness

----------------------------------------------------------------------------
(* The trigger rule in the composer *)

TriggerInit ==
  /\ textarea \in {[value |-> text, selectionStart |-> Len(text)] : text \in InitialTexts}
  /\ typed = 0
  /\ lastEval = NoEval

\* the character c is typed at the caret
Type(c) ==
  /\ typed < MaxTyped
  /\ typed' = typed + 1
  /\ LET cp == caretPosition(textarea)
     IN  textarea' = [value |-> SubSeq(textarea.value, 1, cp) \o <<c>>
                                  \o SubSeq(textarea.value, cp + 1, Len(textarea.value)),
                      selectionStart |-> cp + 1]
  /\ lastEval' = NoEval
  /\ UNCHANGED <<searchVars, linkVars>>

\* the caret moves to position p
MoveCaret(p) ==
  /\ p # caretPosition(textarea)
  /\ textarea' = [textarea EXCEPT !.selectionStart = p]
  /\ lastEval' = NoEval
  /\ UNCHANGED <<typed, searchVars, linkVars>>

\* triggerRule: (textarea, opts) => hashtagTriggerRule(textarea, opts)
Evaluate(backSpace) ==
  /\ lastEval' = [backSpace |-> backSpace, ret |-> hashtagTriggerRule(textarea, backSpace)]
  /\ UNCHANGED <<textarea, typed, searchVars, linkVars>>

TriggerNext ==
  \/ \E c \in Keys : Type(c)
  \/ \E p \in 0..Len(textarea.value) : MoveCaret(p)
  \/ \E backSpace \in BOOLEAN : Evaluate(backSpace)

\* the trigger rule reads the textarea only: it is checked as a
\* specification of its own
TriggerStart == TriggerInit /\ SearchIdle /\ LinkIdle

TriggerSpec == TriggerStart /\ [][TriggerNext]_vars

----------------------------------------------------------------------------
(* Claims about the search orchestrator *)

Outstanding == {r \in DOMAIN requests : requests[r].status = "outstanding"}

\* C1: single-flight: in every reachable state at most one search request
\* issued by _searchRequest is outstanding (neither completed nor aborted).
C1_SingleFlight == Cardinality(Outstanding) <= 1

\* a request was aborted by a later call and the next request is outstanding
C1_Witness ==
  \E r1, r2 \in DOMAIN requests :
    /\ r1 < r2
    /\ requests[r1].status = "aborted"
    /\ requests[r2].status = "outstanding"

\* the calls that reached the debounced lookup (a promise for a non-empty term)
Scheduling == {n \in DOMAIN calls : calls[n].ret = "promise" /\ calls[n].term # ""}
\* a burst starts with a scheduling call made while no debounce was pending
BurstStarts == {n \in Scheduling : ~calls[n].window}
BurstOf(n) == CHOOSE m \in BurstStarts : m <= n /\ \A k \in BurstStarts : k <= n => k <= m
BurstLast(m) == CHOOSE n \in Scheduling :
                  /\ BurstOf(n) = m
                  /\ \A k \in Scheduling : BurstOf(k) = m => k <= n
BurstSize(m) == Cardinality({n \in Scheduling : BurstOf(n) = m})
\* the bursts whose debounce delay has ended, and the rank of a burst among them
FiredBursts == {m \in BurstStarts : ~(debounced.pending /\ BurstOf(debounced.resultFunc) = m)}
BurstRank(m) == Cardinality({k \in BurstStarts : k <= m})

\* C2: debounce coalescing: the calls of a burst (each made while the
\* debounce of the previous one was pending) issue no request while the
\* burst lasts and exactly one when it ends, carrying the term and the type
\* order of the last call of the burst.
C2_DebounceCoalescing ==
  /\ Len(requests) = Cardinality(FiredBursts)
  /\ \A m \in FiredBursts :
       /\ BurstRank(m) \in DOMAIN requests
       /\ requests[BurstRank(m)].term = calls[BurstLast(m)].term
       /\ requests[BurstRank(m)].order = calls[BurstLast(m)].order

\* a burst of two calls with different terms and orders has ended
C2_Witness ==
  \E m \in FiredBursts :
    /\ BurstSize(m) >= 2
    /\ calls[m].term # calls[BurstLast(m)].term
    /\ calls[m].order # calls[BurstLast(m)].order
    /\ Len(requests) = 1

\* the call added by this step, when the step is a call of the data source
IsCallStep == Len(calls') = Len(calls) + 1
NewCall == calls'[Len(calls')]

\* C3: cache hit: a search for a term the cache holds, no more than 30 s
\* after the last cache write, returns the stored result itself, issues no
\* request and schedules neither the debounce nor the timeout timer.
C3_CacheHit ==
  [][IsCallStep =>
       ((/\ truthy(searchCache[NewCall.term])
         /\ searchCacheTime # NOTIME
         /\ now - searchCacheTime <= CACHE_TTL)
        => /\ NewCall.ret = "value"
           /\ NewCall.value = searchCache[NewCall.term]
           /\ NewCall.timeoutPromise = NOTIMER
           /\ debounced' = debounced
           /\ Len(requests') = Len(requests))]_vars

\* a call returned a cached list exactly 30 s after the cache write
C3_Witness ==
  \E n \in DOMAIN calls :
    /\ calls[n].ret = "value"
    /\ calls[n].value = "[x]"
    /\ now - searchCacheTime = CACHE_TTL

TimeoutFires(n) ==
  /\ jobs = <<>>
  /\ calls[n].timeoutPromise # NOTIMER
  /\ calls[n].timeoutPromise <= now
  /\ calls'[n].timeoutPromise = NOTIMER

\* C5: timeout race: when the timeout timer of a pending call fires, its
\* promise settles with CANCELLED, and no later step (a late response
\* included) changes the value a promise settled with.
C5_TimeoutRace ==
  [][\A n \in DOMAIN calls :
       /\ (calls[n].value = PENDING /\ TimeoutFires(n)) => calls'[n].value = CANCELLED_STATUS
       /\ calls[n].value # PENDING => calls'[n].value = calls[n].value]_vars

\* a call timed out and the response of its own request arrived afterwards
C5_Witness ==
  \E r \in DOMAIN requests :
    /\ requests[r].status = "done"
    /\ jobs = <<>>
    /\ calls[requests[r].resultFunc].value = CANCELLED_STATUS
    /\ searchCache[requests[r].term] = "[x]"

C12_EmptyTerm ==
  [][(IsCallStep /\ NewCall.term = "") =>
       /\ NewCall.ret = "promise"
       /\ NewCall.value = CANCELLED_STATUS
       /\ debounced' = debounced
       /\ Len(requests') = Len(requests)
       /\ searchCacheTime' = searchCacheTime
       /\ \A t \in Terms : searchCache'[t] \in {searchCache[t], UNDEFINED}
       /\ searchCache'[""] = UNDEFINED]_vars

\* an empty-term call resolved with CANCELLED while the debounced lookup of
\* an earlier call stayed pending
C12_Witness ==
  \E n \in DOMAIN calls :
    /\ calls[n].term = ""
    /\ calls[n].value = CANCELLED_STATUS
    /\ debounced.pending
    /\ debounced.resultFunc < n
    /\ requests = <<>>

\* the .then callback of a fulfilled request runs in this step
IsThenStep == jobs # <<>> /\ Head(jobs).kind = "then"
\* the call whose resultFunc request r carries
CallOf(r) == requests[r].resultFunc

\* C13 as stated: absent or empty results: when the response has no results
\* field or an empty result list, the promise of the call resolves with
\* CANCELLED if it is still pending, and CANCELLED is what the cache stores
\* for the term.
C13_AbsentOrEmptyCancelled ==
  [][(IsThenStep /\ Head(jobs).results \in {UNDEFINED, "[]"}) =>
       LET n == CallOf(Head(jobs).req)
       IN  /\ searchCache'[calls[n].term] = CANCELLED_STATUS
           /\ calls[n].value = PENDING => calls'[n].value = CANCELLED_STATUS]_vars

\* C14 as stated: search failure handling: once the callbacks of a failed
\* request have run, the promise of its call is resolved with CANCELLED, or
\* at the least its timeout timer is still armed to resolve it; it is not
\* left pending with nothing to settle it, in test mode either.
C14_FailureResolves ==
  \A r \in DOMAIN requests :
    (requests[r].status = "failed" /\ jobs = <<>>) =>
      \/ calls[CallOf(r)].value = CANCELLED_STATUS
      \/ calls[CallOf(r)].timeoutPromise # NOTIMER

\* C17: settlement liveness: outside test mode every promise the search
\* returned eventually settles, with a result list or CANCELLED, also when
\* its debounced lookup was superseded, its request aborted, or its request
\* never completes.
C17_SettlementLiveness ==
  \A n \in 1..MaxCalls :
    []((~testing /\ n \in DOMAIN calls /\ calls[n].ret = "promise")
         => <>(n \in DOMAIN calls /\ calls[n].value \in {"[]", "[x]", CANCELLED_STATUS}))

\* outside test mode a call whose debounced lookup was superseded, so that
\* no request ever carried its resultFunc, was settled by its timeout timer
C17_Witness ==
  \E n \in DOMAIN calls :
    /\ ~testing
    /\ calls[n].ret = "promise"
    /\ calls[n].term # ""
    /\ calls[n].value = CANCELLED_STATUS
    /\ \A r \in DOMAIN requests : requests[r].resultFunc # n
    /\ ~(debounced.pending /\ debounced.resultFunc = n)

----------------------------------------------------------------------------
(* Claims about the registry and the rewriter, under LinkSpec *)

\* the lowercased references of the placeholders left in the region
UnresolvedRefs(elem) ==
  {toLowerCase(replaceHash(elem[i].text)) : i \in hashtagSpans(elem)}

\* C6: once a reference is in the already-checked set, no batch-resolve
\* request issued later contains it, resolved or not.
C6_NoRefetchOfChecked ==
  [][\A i \in DOMAIN batchRequests' :
       i > Len(batchRequests) =>
         \A j \in DOMAIN batchRequests'[i].slugs :
           batchRequests'[i].slugs[j] \notin checkedHashtags]_vars

\* a pass over a region that still holds a placeholder of a checked
\* reference has returned nothing to fetch
C6_Witness ==
  /\ lastOp = "pass"
  /\ lastPass.unseen = <<>>
  /\ Len(batchRequests) >= 1
  /\ UnresolvedRefs(content) # {}
  /\ UnresolvedRefs(content) \subseteq checkedHashtags

\* C7: registry first-write-wins: an entity held at (type, ref) is never
\* removed and never replaced, whatever a later response carries.
C7_FirstWriteWins ==
  [][\A t \in Types : \A r \in ServerRefs :
       seenHashtags[t][r] # NoItem => seenHashtags'[t][r] = seenHashtags[t][r]]_vars

\* a response carried another entity for a (type, ref) the registry held
C7_Witness ==
  \E f \in DOMAIN fetches : fetches[f].status = "done" /\ fetches[f].conflict

\* this step is a rewrite pass
IsPassStep == lastPass'.n = lastPass.n + 1

\* the slug the rewriter looks up under the k-th type of the order
RECURSIVE strippedAt(_, _, _)
strippedAt(slug, order, k) ==
  IF k = 0 THEN slug ELSE stripPostfix(strippedAt(slug, order, k - 1), order[k])

\* the positions in the order of the types that hold a match for the slug
MatchingTypes(slug, order) ==
  {k \in DOMAIN order : lookup(seenHashtags, order[k], strippedAt(slug, order, k)) # NoItem}

FirstMatch(slug, order) ==
  CHOOSE k \in MatchingTypes(slug, order) : \A j \in MatchingTypes(slug, order) : k <= j

\* C8: type priority: a placeholder whose reference matches registry
\* entries under one or several types is replaced, in its place, by the
\* link of the first matching type of typeOrder, built from that type's
\* entity; the later types change nothing.
C8_TypePriority ==
  [][IsPassStep =>
       /\ Len(content') = Len(content)
       /\ \A i \in hashtagSpans(content) :
            LET slug == replaceHash(content[i].text)
                order == lastPass'.order
            IN  MatchingTypes(slug, order) # {} =>
                  LET k == FirstMatch(slug, order)
                  IN  content'[i] = Link(order[k],
                                         lookup(seenHashtags, order[k], strippedAt(slug, order, k)))]_vars

\* the second pass (the first to see a filled registry) left a link while
\* both types held different entities for its reference
C8_Witness ==
  /\ lastOp = "pass"
  /\ lastPass.n = 2
  /\ \E i \in DOMAIN content :
       /\ content[i].kind = "a"
       /\ content[i].type = lastPass.order[1]
       /\ \A t \in Types : lookup(seenHashtags, t, content[i].item.ref) # NoItem
       /\ lookup(seenHashtags, "category", content[i].item.ref)
            # lookup(seenHashtags, "tag", content[i].item.ref)

\* this step is the second of two passes in succession with one typeOrder
IsRepeatedPass == IsPassStep /\ lastOp = "pass" /\ lastPass'.order = lastPass.order

\* C9 as stated: the second of two passes in succession returns an empty
\* list and changes nothing in the content.
C9_SecondRunEmpty ==
  [][IsRepeatedPass => (lastPass'.unseen = <<>> /\ content' = content)]_vars

\* C9 as amended: the second of two passes in succession changes nothing
\* in the content, and it returns, each once, the lowercased references of
\* the placeholders that remain and are not checked: an empty list when no
\* placeholder remains.
C9_SecondRunNoChange ==
  [][IsRepeatedPass =>
       /\ content' = content
       /\ hashtagSpans(content) = {} => lastPass'.unseen = <<>>
       /\ {lastPass'.unseen[i] : i \in DOMAIN lastPass'.unseen}
            = UnresolvedRefs(content) \ checkedHashtags
       /\ \A i, j \in DOMAIN lastPass'.unseen :
            lastPass'.unseen[i] = lastPass'.unseen[j] => i = j]_vars

\* a pass was repeated on a region whose placeholders were all rewritten
C9_Witness ==
  /\ lastOp = "pass"
  /\ lastPass.repeat
  /\ lastPass.unseen = <<>>
  /\ content # <<>>
  /\ hashtagSpans(content) = {}

\* C10: checked marking: after a fetchUnseen call completes, every
\* reference it was given is checked, also those the response resolved to
\* no entity, and every call sent one request carrying all its references.
C10_CheckedMarking ==
  /\ Len(batchRequests) = Len(fetches)
  /\ \A f \in DOMAIN fetches :
       /\ batchRequests[f].slugs = fetches[f].slugs
       /\ batchRequests[f].order = fetches[f].order
       /\ fetches[f].status = "done" =>
            \A j \in DOMAIN fetches[f].slugs : fetches[f].slugs[j] \in checkedHashtags

\* a completed call resolved one of its references and not the other
C10_Witness ==
  \E f \in DOMAIN fetches :
    /\ fetches[f].status = "done"
    /\ \E i, j \in DOMAIN fetches[f].slugs :
         /\ \E t \in Types : lookup(seenHashtags, t, fetches[f].slugs[i]) # NoItem
         /\ \A t \in Types : lookup(seenHashtags, t, fetches[f].slugs[j]) = NoItem
         /\ fetches[f].slugs[j] \in checkedHashtags

\* C16 as stated: no duplicate batch lookups under interleaving: with every
\* pass followed by a fetch of the list it returned, no reference is sent
\* to /hashtags by two requests, a pass run while a fetch is in flight
\* included.
C16_NoDuplicateLookup ==
  \A i, j \in DOMAIN batchRequests :
    i # j => Range(batchRequests[i].slugs) \cap Range(batchRequests[j].slugs) = {}

\* the types of the order whose suffix "::type" ends the slug
SuffixTypes(slug, order) ==
  {order[k] : k \in {j \in DOMAIN order : endsWith(slug, typePostfix(order[j]))}}

\* C18 as stated: the type suffix is respected: a placeholder whose
\* reference ends in "::T" for a type T of the order is left as it is or
\* becomes the link of type T built from the entry at (T, reference without
\* the suffix), never a link of another type.
C18_SuffixRespected ==
  [][IsPassStep =>
       \A i \in hashtagSpans(content) :
         LET slug == replaceHash(content[i].text)
         IN  \A T \in SuffixTypes(slug, lastPass'.order) :
               \/ content'[i] = content[i]
               \/ /\ lookup(seenHashtags, T, stripPostfix(slug, T)) # NoItem
                  /\ content'[i] = Link(T, lookup(seenHashtags, T, stripPostfix(slug, T)))]_vars

----------------------------------------------------------------------------
(* Claims about the trigger rule, under TriggerSpec *)

\* the step evaluates the trigger rule on the textarea as it stands
IsEvalStep == lastEval'.ret # "none" /\ textarea' = textarea

\* the line the caret is on, the caret's column in it, and that line with
\* its last character dropped
CursorLine == splitLine(textarea.value, caretRowCol(textarea).rowNum)
CursorCol == caretRowCol(textarea).colNum
DroppedLine == SubSeq(CursorLine, 1, Len(CursorLine) - 1)

\* l begins with "#" followed by one or more word characters
BeginsWithHashWord(l) ==
  /\ Len(l) >= 2
  /\ l[1] = "#"
  /\ \E k \in 2..Len(l) : \A i \in 2..k : isWordChar(l[i])

\* the first c characters of l are all "#"
OnlyHashes(l, c) == \A i \in 1..c : i <= Len(l) /\ l[i] = "#"

\* the decision C15 states for an evaluation with backspace flag bs
ExpectedDecision(bs) ==
  LET workingLine == IF bs THEN DroppedLine ELSE CursorLine
      workingCol == IF bs THEN CursorCol - 1 ELSE CursorCol
  IN  IF \/ bs /\ BeginsWithHashWord(DroppedLine)
         \/ workingCol < 6 /\ OnlyHashes(workingLine, workingCol)
         \/ inCodeBlock(textarea.value, textarea.selectionStart)
      THEN "false" ELSE "true"

\* C15: trigger decision: with the caret at column 1 or more, the rule
\* returns false exactly when (a) it is a backspace evaluation and the line
\* without its last character begins with "#" and word characters, or (b)
\* the working column is below 6 and the working line up to it holds only
\* "#", or (c) the caret is inside a fenced code block; otherwise true. So
\* "###" at column 3 gives false, "#" typed after "hello " gives true and
\* backspacing from "#category " gives false.
C15_TriggerDecision ==
  [][(IsEvalStep /\ CursorCol >= 1) =>
       /\ lastEval'.ret = ExpectedDecision(lastEval'.backSpace)
       /\ (/\ textarea.value = <<"#", "#", "#">>
           /\ textarea.selectionStart = 3
           /\ ~lastEval'.backSpace) => lastEval'.ret = "false"
       /\ (/\ textarea.value = <<"h", "e", "l", "l", "o", " ", "#">>
           /\ textarea.selectionStart = 7
           /\ ~lastEval'.backSpace) => lastEval'.ret = "true"
       /\ (/\ textarea.value = <<"#", "c", "a", "t", "e", "g", "o", "r", "y", " ">>
           /\ textarea.selectionStart = 10
           /\ lastEval'.backSpace) => lastEval'.ret = "false"]_vars

\* "#" was typed after "hello " and the rule, evaluated there, returned true
C15_Witness ==
  /\ textarea.value = <<"h", "e", "l", "l", "o", " ", "#">>
  /\ textarea.selectionStart = 7
  /\ typed = 1
  /\ lastEval = [backSpace |-> FALSE, ret |-> "true"]

\* C19 as stated: column 0: an evaluation without backspace with the caret
\* at column 0 of its line is decided by the code-block check alone: true
\* outside a fenced code block, false inside one.
C19_ColumnZero ==
  [][(IsEvalStep /\ ~lastEval'.backSpace /\ CursorCol = 0) =>
       lastEval'.ret = IF inCodeBlock(textarea.value, textarea.selectionStart)
                       THEN "false" ELSE "true"]_vars

\* C20 as stated: totality: for every text, caret and backspace flag, a
\* backspace evaluation at column 0 included, the rule returns a boolean,
\* raises no error and changes no state.
C20_Totality ==
  [][lastEval'.ret # "none" =>
       /\ lastEval'.ret \in {"true", "false"}
       /\ UNCHANGED <<textarea, typed, searchVars, linkVars>>]_vars

====
